---- MODULE Spec2Model ----
(***************************************************************************)
(* Model of src/main.go: the preparation gate (handlePrepareDownload and   *)
(* its background goroutine, guarded by circuitMutex / circuitPrepared)    *)
(* and the proof submission pipeline (handleSubmitProof).                  *)
(*                                                                         *)
(* Every HTTP request is one thread of control.  A call of                 *)
(* /prepare-download is request t in Preps: its handler spawns goroutine t *)
(* and then writes the acknowledgment.  A call of /submit-proof is request *)
(* s in Subs.  External collaborators (sdk.NewBrevisApp, sdk.Compile,      *)
(* app.BuildCircuitInput, ...) return either nil or an error, chosen       *)
(* nondeterministically, and the values they return are drawn from small   *)
(* sets.                                                                   *)
(***************************************************************************)
EXTENDS Integers, Sequences, FiniteSets, TLC

\* ------------------------------------------------------------------ bounds
\* Number of /prepare-download requests and of /submit-proof requests.
NPrep == 2
NSub == 1

\* Number of /submit-proof requests racing one another once the circuit is
\* prepared (specification SpecSubs).
NSubK == 2

Preps == 1..NPrep
Subs == 1..NSub
KSubs == 1..NSubK

\* Every /submit-proof request of some specification.
AllSubs == Subs \cup KSubs

\* ------------------------------------------------------- values and results
Nil == "nil"
Err == "error"
Errors == {Nil, Err}

\* Values the proof-network collaborator may return.
ReqIds == {26, 161}
Fees == {0, 7}
Txs == {26, 43}

\* No value returned, no response written yet, nothing logged yet.
None == <<>>
NoResp == [status |-> 0, ctype |-> "", body |-> <<>>]
NoLog == ""

HexDigits == <<"0", "1", "2", "3", "4", "5", "6", "7",
               "8", "9", "a", "b", "c", "d", "e", "f">>

\* common.Hash.Hex(): "0x" followed by the hexadecimal digits of the value
\* (values here are one byte wide).
Hex(n) == <<"0x", HexDigits[((n \div 16) % 16) + 1], HexDigits[(n % 16) + 1]>>

StatusOK == 200
StatusBadRequest == 400
StatusInternalServerError == 500

VARIABLES
    circuitPrepared,  \* the package-level flag
    circuitMutex,     \* owner of the package-level mutex, or Free
    hpc,              \* handlePrepareDownload handler t: "idle", "spawned", "done"
    ack,              \* what handler t wrote to its caller
    gpc,              \* goroutine t: position in the func literal
    gcalls,           \* goroutine t: the collaborator calls it made, in order
    glog,             \* goroutine t: the line it logged on exit
    lockOrder,        \* goroutines in the order they acquired circuitMutex
    spc,              \* handleSubmitProof request s: position
    prepared,         \* handleSubmitProof request s: local `prepared`
    scalls,           \* request s: the collaborator calls it made, in order
    resp,             \* request s: the response written
    cin,              \* the sdk.DataInput a circuit definition is run against
    cres              \* what AppCircuit.Define made of cin, once it has run

vars == <<circuitPrepared, circuitMutex, hpc, ack, gpc, gcalls, glog, lockOrder,
          spc, prepared, scalls, resp, cin, cres>>

circVars == <<cin, cres>>

prepVars == <<hpc, ack, gpc, gcalls, glog, lockOrder>>
subVars == <<spc, prepared, scalls, resp>>

\* --------------------------------------------------------------- the mutex
Free == <<"free", 0>>
Task(t) == <<"prepare", t>>
Req(s) == <<"submit", s>>

\* Mutant: Lock() that does not wait for the owner to release.
LockNoWait(who) == TRUE

\* circuitMutex.Lock() returns to `who` only when nobody owns the mutex.
CanLock(who) == circuitMutex = Free

\* ------------------------------------------------------- AppCircuit
\* Allocate(): return 0, 32, 0
maxReceipts == 0
maxStorage == 32
maxTransactions == 0

Allocate == <<maxReceipts, maxStorage, maxTransactions>>

\* estimatedEmissions := big.NewInt(10000), the EmissionsData of every
\* AppCircuit the program builds.
EmissionsData == 10000

\* Longest storage-slot stream with freely chosen slot values.
MaxLen == 3

\* Slot values: the expected emission and its two neighbours.
SlotValues == {EmissionsData - 1, EmissionsData, EmissionsData + 1}

Slot(v) == [Value |-> v]
DataInput(values) == [StorageSlots |-> [i \in 1..Len(values) |-> Slot(values[i])]]

\* The stream of n slots that all hold v.
AllEqual(n, v) == [i \in 1..n |-> v]

RECURSIVE SeqsUpTo(_, _)
SeqsUpTo(S, n) ==
    IF n = 0 THEN {<<>>}
    ELSE LET shorter == SeqsUpTo(S, n - 1)
         IN  shorter \cup {Append(q, x) : q \in {r \in shorter : Len(r) = n - 1}, x \in S}

\* The inputs a circuit definition is run against: every stream of up to
\* MaxLen slots, and the streams of up to maxStorage + 1 slots that all hold
\* the expected emission.
CircuitInputs ==
    {DataInput(q) : q \in SeqsUpTo(SlotValues, MaxLen)}
        \cup {DataInput(AllEqual(n, EmissionsData)) : n \in 0..(maxStorage + 1)}

\* big.Int.Uint64() and sdk.ConstUint248: every value of the model lies far
\* below 2^64, where both keep the number.
Uint64(x) == x
ConstUint248(x) == x

\* api.ToUint248(slot.Value): the slot values of the model lie far below
\* 2^248, where the cast keeps the number.
ToUint248(v) == v

\* api.Uint248.IsEqual: 1 when equal, 0 otherwise.
IsEqual(a, b) == IF a = b THEN 1 ELSE 0

\* Mutant: the assertion compares the value with itself.
SlotCheckSelf(slot, expectedEmission) == IsEqual(ToUint248(slot.Value), ToUint248(slot.Value))

\* The function given to sdk.AssertEach.
SlotCheck(slot, expectedEmission) == IsEqual(ToUint248(slot.Value), expectedEmission)

\* Mutant: the map yields the slot count contribution 1 instead of the value.
SlotEmissionOne(slot) == 1

\* The function given to sdk.Map.
SlotEmission(slot) == ToUint248(slot.Value)

\* sdk.AssertEach: the constraint that the function yields 1 on every element.
AssertEach(slots, expectedEmission) ==
    \A i \in 1..Len(slots) : SlotCheck(slots[i], expectedEmission) = 1

\* sdk.Map with the emission function.
Map(slots) == [i \in 1..Len(slots) |-> SlotEmission(slots[i])]

\* sdk.Sum
RECURSIVE Sum(_)
Sum(q) == IF q = <<>> THEN 0 ELSE Head(q) + Sum(Tail(q))

\* AppCircuit.Define: whether the constraints it adds are satisfied by the
\* input, and the public outputs it declares.
Define(in) ==
    LET slots == in.StorageSlots
        expectedEmission == ConstUint248(Uint64(EmissionsData))
        asserted == AssertEach(slots, expectedEmission)
        emissions == Map(slots)
        totalEmissions == Sum(emissions)
    IN  [satisfied |-> asserted, outputs |-> <<totalEmissions>>]

NoResult == [satisfied |-> FALSE, outputs |-> <<>>]

\* ------------------------------------------------------------ Init
InitCircuit ==
    /\ cin = DataInput(<<>>)
    /\ cres = NoResult

Init ==
    /\ InitCircuit
    /\ circuitPrepared = FALSE
    /\ circuitMutex = Free
    /\ hpc = [t \in Preps |-> "idle"]
    /\ ack = [t \in Preps |-> NoResp]
    /\ gpc = [t \in Preps |-> "none"]
    /\ gcalls = [t \in Preps |-> <<>>]
    /\ glog = [t \in Preps |-> NoLog]
    /\ lockOrder = <<>>
    /\ spc = [s \in AllSubs |-> "idle"]
    /\ prepared = [s \in AllSubs |-> FALSE]
    /\ scalls = [s \in AllSubs |-> <<>>]
    /\ resp = [s \in AllSubs |-> NoResp]

\* A collaborator call: the operation, the error it returned and its values.
Call(op, err, val) == [op |-> op, err |-> err, val |-> val]
Pending == "pending"


\* The operations of a call log, in order.
Ops(calls) == [i \in 1..Len(calls) |-> calls[i].op]

\* ------------------------------------------------- handlePrepareDownload

\* Mutant: the func literal called without `go`, so the handler answers only
\* once the preparation work has returned.
AckReadySync(t) == hpc[t] = "spawned" /\ gpc[t] = "done"

\* The handler reaches WriteHeader as soon as the go statement has run.
AckReady(t) == hpc[t] = "spawned"

\* WriteHeader(http.StatusOK) and the literal body.
AckResponse ==
    [status |-> StatusOK, ctype |-> "text/plain; charset=utf-8",
     body |-> <<"Circuit preparation started.">>]

\* go func() { ... }(): the request arrives and the goroutine is started.
\* Requests are numbered in the order they arrive.
Trigger(t) ==
    /\ hpc[t] = "idle"
    /\ IF t = 1 THEN TRUE ELSE hpc[t - 1] # "idle"
    /\ hpc' = [hpc EXCEPT ![t] = "spawned"]
    /\ gpc' = [gpc EXCEPT ![t] = "start"]
    /\ UNCHANGED <<circuitPrepared, circuitMutex, ack, gcalls, glog, lockOrder>>
    /\ UNCHANGED subVars
    /\ UNCHANGED circVars

\* w.WriteHeader(http.StatusOK); w.Write("Circuit preparation started.")
Ack(t) ==
    /\ AckReady(t)
    /\ ack' = [ack EXCEPT ![t] = AckResponse]
    /\ hpc' = [hpc EXCEPT ![t] = "done"]
    /\ UNCHANGED <<circuitPrepared, circuitMutex, gpc, gcalls, glog, lockOrder>>
    /\ UNCHANGED subVars
    /\ UNCHANGED circVars

\* Mutant: the `defer circuitMutex.Unlock()` left out.
GoReturnNoUnlock(t, line) ==
    /\ glog' = [glog EXCEPT ![t] = line]
    /\ gpc' = [gpc EXCEPT ![t] = "done"]
    /\ UNCHANGED circuitMutex

\* The goroutine returns: it logs `line`, and the deferred Unlock runs.
GoReturn(t, line) ==
    /\ glog' = [glog EXCEPT ![t] = line]
    /\ gpc' = [gpc EXCEPT ![t] = "done"]
    /\ circuitMutex' = Free

\* circuitMutex.Lock()
GoLock(t) ==
    /\ gpc[t] = "start"
    /\ CanLock(Task(t))
    /\ circuitMutex' = Task(t)
    /\ gpc' = [gpc EXCEPT ![t] = "check"]
    /\ lockOrder' = Append(lockOrder, t)
    /\ UNCHANGED <<circuitPrepared, hpc, ack, gcalls, glog>>
    /\ UNCHANGED subVars
    /\ UNCHANGED circVars

\* Mutant: the `if circuitPrepared` short circuit left out.
NeverShortCircuit(flag) == FALSE

\* if circuitPrepared { log; return }
ShortCircuit(flag) == flag

GoCheck(t) ==
    /\ gpc[t] = "check"
    /\ IF ShortCircuit(circuitPrepared)
       THEN GoReturn(t, "Circuit already prepared.")
       ELSE /\ gpc' = [gpc EXCEPT ![t] = "newapp"]
            /\ UNCHANGED <<circuitMutex, glog>>
    /\ UNCHANGED <<circuitPrepared, hpc, ack, gcalls, lockOrder>>
    /\ UNCHANGED subVars
    /\ UNCHANGED circVars

\* app, err := sdk.NewBrevisApp(...); if err != nil { log; return }
GoNewApp(t) ==
    /\ gpc[t] = "newapp"
    /\ \E err \in Errors :
        /\ gcalls' = [gcalls EXCEPT ![t] = Append(@, Call("NewBrevisApp", err, None))]
        /\ IF err # Nil
           THEN GoReturn(t, "Error initializing BrevisApp")
           ELSE /\ gpc' = [gpc EXCEPT ![t] = "compile"]
                /\ UNCHANGED <<circuitMutex, glog>>
    /\ UNCHANGED <<circuitPrepared, hpc, ack, lockOrder>>
    /\ UNCHANGED subVars
    /\ UNCHANGED circVars

\* sdk.Compile(circuit, outDir, srsDir, app) is invoked.
GoCompileCall(t) ==
    /\ gpc[t] = "compile"
    /\ gcalls' = [gcalls EXCEPT ![t] = Append(@, Call("Compile", Pending, None))]
    /\ gpc' = [gpc EXCEPT ![t] = "compiling"]
    /\ UNCHANGED <<circuitPrepared, circuitMutex, hpc, ack, glog, lockOrder>>
    /\ UNCHANGED subVars
    /\ UNCHANGED circVars

\* Mutant: the `return` of the compile error branch left out.
NoReturnOnCompileError(err) == FALSE

\* if err != nil { log; return } after sdk.Compile
ReturnsOnCompileError(err) == err # Nil

\* sdk.Compile returns.
GoCompileReturn(t) ==
    /\ gpc[t] = "compiling"
    /\ \E err \in Errors :
        /\ gcalls' = [gcalls EXCEPT ![t][Len(gcalls[t])] = Call("Compile", err, None)]
        /\ IF ReturnsOnCompileError(err)
           THEN GoReturn(t, "Error compiling circuit")
           ELSE /\ gpc' = [gpc EXCEPT ![t] = "set"]
                /\ UNCHANGED <<circuitMutex, glog>>
    /\ UNCHANGED <<circuitPrepared, hpc, ack, lockOrder>>
    /\ UNCHANGED subVars
    /\ UNCHANGED circVars

\* Mutant: the assignment writes false.
PreparedValueFalse == FALSE

\* circuitPrepared = true
PreparedValue == TRUE

GoSetPrepared(t) ==
    /\ gpc[t] = "set"
    /\ circuitPrepared' = PreparedValue
    /\ GoReturn(t, "Circuit preparation complete.")
    /\ UNCHANGED <<hpc, ack, gcalls, lockOrder>>
    /\ UNCHANGED subVars
    /\ UNCHANGED circVars

handlePrepareDownload(t) ==
    \/ Trigger(t)
    \/ Ack(t)
    \/ GoLock(t)
    \/ GoCheck(t)
    \/ GoNewApp(t)
    \/ GoCompileCall(t)
    \/ GoCompileReturn(t)
    \/ GoSetPrepared(t)

\* ----------------------------------------------------- handleSubmitProof

\* http.Error(w, msg, code): a plain-text body with the given status.
HttpError(msg, code) ==
    [status |-> code, ctype |-> "text/plain; charset=utf-8", body |-> msg]

\* The message prefix of each error branch of handleSubmitProof.
ErrText(op) ==
    CASE op = "NewBrevisApp" -> "Error initializing BrevisApp"
      [] op = "BuildCircuitInput" -> "Error building circuit input"
      [] op = "NewFullWitness" -> "Error generating witness"
      [] op = "Prove" -> "Error generating proof"
      [] op = "SubmitProof" -> "Error submitting proof"
      [] op = "PrepareRequest" -> "Error preparing request"
      [] op = "WaitFinalProofSubmitted" -> "Error waiting for proof submission"

NotReadyText == "Circuit not prepared yet. Please try again later."

\* Mutant: the proof stage's error branch answers with a success status.
ErrorStatusProveOK(op) ==
    IF op = "Prove" THEN StatusOK ELSE StatusInternalServerError

\* The status each collaborator error branch passes to http.Error.
ErrorStatus(op) == StatusInternalServerError

\* The status of the not-ready branch.
NotReadyStatus == StatusBadRequest

\* Mutant: the `return` of the build-circuit-input error branch left out.
AbortsExceptBuild(op, err) == err # Nil /\ op # "BuildCircuitInput"

\* The `return` that ends the error branch after collaborator call `op`.
Aborts(op, err) == err # Nil

\* Mutant: request identifier and transaction reference interchanged.
SuccessResponseSwapped(requestId, feeValue, tx) ==
    [status |-> StatusOK, ctype |-> "application/json",
     body |-> [request_id |-> Hex(tx), fee |-> feeValue, transaction |-> Hex(requestId)]]

\* The response map, encoded as JSON with the implicit 200 status.
SuccessResponse(requestId, feeValue, tx) ==
    [status |-> StatusOK, ctype |-> "application/json",
     body |-> [request_id |-> Hex(requestId), fee |-> feeValue, transaction |-> Hex(tx)]]

\* The request arrives and reaches circuitMutex.Lock().  Requests are
\* numbered in the order they arrive.
SubArrive(s) ==
    /\ spc[s] = "idle"
    /\ IF s = 1 THEN TRUE ELSE spc[s - 1] # "idle"
    /\ spc' = [spc EXCEPT ![s] = "lock"]
    /\ UNCHANGED <<circuitPrepared, circuitMutex, prepared, scalls, resp>>
    /\ UNCHANGED prepVars
    /\ UNCHANGED circVars

\* Mutant: the readiness read without taking the mutex.
SubLockSkip(s) ==
    /\ spc[s] = "lock"
    /\ spc' = [spc EXCEPT ![s] = "read"]
    /\ UNCHANGED <<circuitPrepared, circuitMutex, prepared, scalls, resp>>
    /\ UNCHANGED prepVars
    /\ UNCHANGED circVars

\* circuitMutex.Lock()
SubLock(s) ==
    /\ spc[s] = "lock"
    /\ CanLock(Req(s))
    /\ circuitMutex' = Req(s)
    /\ spc' = [spc EXCEPT ![s] = "read"]
    /\ UNCHANGED <<circuitPrepared, prepared, scalls, resp>>
    /\ UNCHANGED prepVars
    /\ UNCHANGED circVars

\* prepared := circuitPrepared
SubRead(s) ==
    /\ spc[s] = "read"
    /\ prepared' = [prepared EXCEPT ![s] = circuitPrepared]
    /\ spc' = [spc EXCEPT ![s] = "unlock"]
    /\ UNCHANGED <<circuitPrepared, circuitMutex, scalls, resp>>
    /\ UNCHANGED prepVars
    /\ UNCHANGED circVars

\* Mutant: the Unlock after the readiness read left out.
SubUnlockKeep(s) ==
    /\ spc[s] = "unlock"
    /\ spc' = [spc EXCEPT ![s] = "ready"]
    /\ UNCHANGED <<circuitPrepared, circuitMutex, prepared, scalls, resp>>
    /\ UNCHANGED prepVars
    /\ UNCHANGED circVars

\* circuitMutex.Unlock()
SubUnlock(s) ==
    /\ spc[s] = "unlock"
    /\ circuitMutex' = Free
    /\ spc' = [spc EXCEPT ![s] = "ready"]
    /\ UNCHANGED <<circuitPrepared, prepared, scalls, resp>>
    /\ UNCHANGED prepVars
    /\ UNCHANGED circVars

\* Mutant: the readiness check left out.
NotReadyNever(p) == FALSE

\* if !prepared
NotReady(p) == ~p

\* if !prepared { http.Error(..., StatusBadRequest); return }
SubCheck(s) ==
    /\ spc[s] = "ready"
    /\ IF NotReady(prepared[s])
       THEN /\ resp' = [resp EXCEPT ![s] = HttpError(<<NotReadyText>>, NotReadyStatus)]
            /\ spc' = [spc EXCEPT ![s] = "done"]
       ELSE /\ spc' = [spc EXCEPT ![s] = "NewBrevisApp"]
            /\ UNCHANGED resp
    /\ UNCHANGED <<circuitPrepared, circuitMutex, prepared, scalls>>
    /\ UNCHANGED prepVars
    /\ UNCHANGED circVars

\* One collaborator call of the pipeline and the error branch after it: the
\* call `op` returns one of the results `errs`, and with nil one of `vals`; on
\* an error the handler writes the error response and returns, otherwise it
\* goes on to `next`.
Stage(s, op, errs, vals, next) ==
    /\ spc[s] = op
    /\ \E err \in errs, v \in vals :
        /\ err # Nil => v = CHOOSE x \in vals : TRUE
        /\ scalls' = [scalls EXCEPT ![s] =
                        Append(@, Call(op, err, IF err = Nil THEN v ELSE None))]
        /\ resp' = IF err # Nil
                   THEN [resp EXCEPT ![s] =
                           HttpError(<<ErrText(op), err>>, ErrorStatus(op))]
                   ELSE resp
        /\ spc' = [spc EXCEPT ![s] = IF Aborts(op, err) THEN "done" ELSE next]
    /\ UNCHANGED <<circuitPrepared, circuitMutex, prepared>>
    /\ UNCHANGED prepVars
    /\ UNCHANGED circVars

\* app, err := sdk.NewBrevisApp(...)
SubNewApp(s) == Stage(s, "NewBrevisApp", Errors, {None}, "BuildCircuitInput")

\* The last value a call of `op` returned to request s.
Returned(calls, op) ==
    LET idx == {i \in 1..Len(calls) : calls[i].op = op /\ calls[i].err = Nil}
    IN  IF idx = {} THEN None
        ELSE calls[CHOOSE i \in idx : \A j \in idx : j <= i].val

\* The data inputs the chain-RPC collaborator may build from chain state:
\* three slots holding the expected emission, three slots one of which holds
\* another value, and one slot more than Allocate declares.
InputStreams ==
    {DataInput(AllEqual(3, EmissionsData)),
     DataInput(<<EmissionsData, EmissionsData - 1, EmissionsData>>),
     DataInput(AllEqual(maxStorage + 1, EmissionsData))}

\* circuitInput of request s: what BuildCircuitInput returned, the zero value
\* before that.
CircuitInput(calls) ==
    LET in == Returned(calls, "BuildCircuitInput")
    IN  IF in = None THEN DataInput(<<>>) ELSE in

\* The results the proving backend may give for a witness of `in`: a proof
\* exists only when the constraints Define adds are satisfied by the input.
ProveResults(in) == IF Define(in).satisfied THEN Errors ELSE {Err}

\* circuitInput, err := app.BuildCircuitInput(circuit)
SubBuildInput(s) ==
    Stage(s, "BuildCircuitInput", Errors, InputStreams, "NewFullWitness")

\* witness, _, err := sdk.NewFullWitness(circuit, circuitInput)
SubWitness(s) == Stage(s, "NewFullWitness", Errors, {None}, "Prove")

\* proof, err := sdk.Prove(nil, nil, witness)
SubProve(s) ==
    Stage(s, "Prove", ProveResults(CircuitInput(scalls[s])), {None}, "SubmitProof")

\* err = app.SubmitProof(proof)
SubSubmit(s) == Stage(s, "SubmitProof", Errors, {None}, "PrepareRequest")

\* The request identifier and fee PrepareRequest may return: two requests that
\* differ in both.
PrepareResults ==
    {p \in [requestId : ReqIds, feeValue : Fees] :
        (p.requestId = 26) <=> (p.feeValue = 0)}

\* _, requestId, feeValue, _, err := app.PrepareRequest(...)
SubPrepareRequest(s) ==
    Stage(s, "PrepareRequest", Errors,
          PrepareResults,
          "WaitFinalProofSubmitted")

\* tx, err := app.WaitFinalProofSubmitted(ctx), and on success the response
\* map encoded to the caller.
SubWaitFinal(s) ==
    /\ spc[s] = "WaitFinalProofSubmitted"
    /\ \E err \in Errors, tx \in Txs :
        /\ err # Nil => tx = CHOOSE x \in Txs : TRUE
        /\ scalls' = [scalls EXCEPT ![s] =
                        Append(@, Call("WaitFinalProofSubmitted", err,
                                       IF err = Nil THEN tx ELSE None))]
        /\ spc' = [spc EXCEPT ![s] = "done"]
        /\ IF Aborts("WaitFinalProofSubmitted", err)
           THEN resp' = [resp EXCEPT ![s] =
                           HttpError(<<ErrText("WaitFinalProofSubmitted"), err>>,
                                     ErrorStatus("WaitFinalProofSubmitted"))]
           ELSE LET pr == Returned(scalls[s], "PrepareRequest")
                IN  resp' = [resp EXCEPT ![s] =
                               SuccessResponse(pr.requestId, pr.feeValue, tx)]
    /\ UNCHANGED <<circuitPrepared, circuitMutex, prepared>>
    /\ UNCHANGED prepVars
    /\ UNCHANGED circVars

handleSubmitProof(s) ==
    \/ SubArrive(s)
    \/ SubLock(s)
    \/ SubRead(s)
    \/ SubUnlock(s)
    \/ SubCheck(s)
    \/ SubNewApp(s)
    \/ SubBuildInput(s)
    \/ SubWitness(s)
    \/ SubProve(s)
    \/ SubSubmit(s)
    \/ SubPrepareRequest(s)
    \/ SubWaitFinal(s)

\* ------------------------------------------------------------ specification
Next ==
    \/ \E t \in Preps : handlePrepareDownload(t)
    \/ \E s \in Subs : handleSubmitProof(s)

Spec == Init /\ [][Next]_vars

\* Two /prepare-download calls in sequence: the background task of the
\* second call is started only after that of the first has returned.
TwoCalls == {1, 2}

SeqTrigger(t) ==
    /\ IF t = 1 THEN TRUE ELSE gpc[t - 1] = "done"
    /\ Trigger(t)

NextSeq ==
    \/ \E t \in TwoCalls :
        \/ SeqTrigger(t)
        \/ Ack(t)
        \/ GoLock(t)
        \/ GoCheck(t)
        \/ GoNewApp(t)
        \/ GoCompileCall(t)
        \/ GoCompileReturn(t)
        \/ GoSetPrepared(t)
    \/ \E s \in Subs : handleSubmitProof(s)

SpecSeq == Init /\ [][NextSeq]_vars

\* ------------------------------------------------------------ observations

\* Program positions between circuitMutex.Lock() and the Unlock.
GoHolds(t) == gpc[t] \in {"check", "newapp", "compile", "compiling", "set"}
SubHolds(s) == spc[s] \in {"read", "unlock"}

\* Goroutines inside sdk.Compile.
InCompile == {t \in Preps : gpc[t] = "compiling"}

RECURSIVE SumOver(_, _)
SumOver(f, S) ==
    IF S = {} THEN 0
    ELSE LET x == CHOOSE y \in S : TRUE IN f[x] + SumOver(f, S \ {x})

CountCalls(calls, op) == Cardinality({i \in 1..Len(calls) : calls[i].op = op})
CountFailed(calls, op) ==
    Cardinality({i \in 1..Len(calls) : calls[i].op = op /\ calls[i].err = Err})
CountOk(calls, op) ==
    Cardinality({i \in 1..Len(calls) : calls[i].op = op /\ calls[i].err = Nil})

\* sdk.Compile invocations made so far, and how many of them returned an error.
CompileCalls == SumOver([t \in Preps |-> CountCalls(gcalls[t], "Compile")], Preps)
CompileFailures == SumOver([t \in Preps |-> CountFailed(gcalls[t], "Compile")], Preps)

LogAlready == "Circuit already prepared."
LogInitError == "Error initializing BrevisApp"
LogCompileError == "Error compiling circuit"
LogComplete == "Circuit preparation complete."

\* ------------------------------------------------------------------ claims

\* C1: at most one invocation of sdk.Compile is in flight at any time; a
\* goroutine is inside Compile only while it owns circuitMutex, and no two
\* threads are between Lock and Unlock at once.
C1_OneCompileInFlight ==
    /\ Cardinality(InCompile) <= 1
    /\ \A t \in InCompile : circuitMutex = Task(t)
    /\ Cardinality({t \in Preps : GoHolds(t)}) + Cardinality({s \in Subs : SubHolds(s)}) <= 1

\* C1 witness: one goroutine is inside Compile while another goroutine and a
\* submission are waiting for the mutex.
C1_Witness ==
    \E t, u \in Preps : \E s \in Subs :
        /\ gpc[t] = "compiling"
        /\ gpc[u] = "start"
        /\ spc[s] = "lock"

\* C2 (as stated): in every execution, also one in which a compile attempt
\* returns an error, sdk.Compile is invoked at most once before Prepared.
C2_Original == CompileCalls <= 1

\* C2 (amended): the number of sdk.Compile invocations is at most one more
\* than the number of compile attempts that returned an error; so without a
\* failed attempt compile is invoked at most once.
C2_CompileOncePerFailure == CompileCalls <= CompileFailures + 1

\* C2 witness: concurrent triggers, a failed attempt, and a second invocation
\* that brought the state to Prepared.
C2_Witness ==
    /\ CompileCalls = 2
    /\ CompileFailures = 1
    /\ circuitPrepared

\* C3 (as stated): two calls in sequence make exactly one compile invocation.
C3_Original ==
    (gpc[1] = "done" /\ gpc[2] = "done") => CompileCalls = 1

\* C3 (amended): two calls in sequence, the first of which completed the
\* preparation, make exactly one compile invocation in total.
C3_IdempotentAfterSuccess ==
    (gpc[1] = "done" /\ gpc[2] = "done" /\ glog[1] = LogComplete) => CompileCalls = 1

\* C3 witness: the first call prepared the circuit, and the second call,
\* started afterwards, has finished as well.
C3_Witness ==
    /\ gpc[1] = "done" /\ gpc[2] = "done"
    /\ glog[1] = LogComplete
    /\ glog[2] = LogAlready

\* C4: once circuitPrepared is true it stays true and no goroutine makes a
\* collaborator call any more; a goroutine that observed Prepared has called
\* neither NewBrevisApp nor Compile.
C4_PreparedTerminal ==
    /\ [][circuitPrepared => (circuitPrepared' /\ gcalls' = gcalls)]_vars
    /\ [](\A t \in Preps : glog[t] = LogAlready => (gcalls[t] = <<>> /\ circuitPrepared))

\* C4 witness: a goroutine has observed Prepared and returned.
C4_Witness ==
    \E t \in Preps : gpc[t] = "done" /\ glog[t] = LogAlready /\ circuitPrepared

\* A submission that has done its readiness read.
ReadDone(s) == spc[s] \notin {"idle", "lock", "read"}

\* C5: a submission whose readiness read saw not Prepared makes no
\* collaborator call, can only end with the not-ready error, and no step of a
\* submission changes circuitPrepared or leaves the mutex owned.
C5_NotReadyNoCollaborator ==
    /\ [](\A s \in Subs : (ReadDone(s) /\ ~prepared[s]) =>
            /\ scalls[s] = <<>>
            /\ spc[s] \in {"unlock", "ready", "done"}
            /\ spc[s] \in {"ready", "done"} => circuitMutex # Req(s)
            /\ spc[s] = "done" => resp[s] = HttpError(<<NotReadyText>>, NotReadyStatus))
    /\ [][\A s \in Subs : spc'[s] # spc[s] => circuitPrepared' = circuitPrepared]_vars

\* C5 witness: a submission has ended with the not-ready error.
C5_Witness ==
    \E s \in Subs :
        /\ spc[s] = "done"
        /\ ~prepared[s]
        /\ resp[s].body = <<NotReadyText>>

\* The collaborator calls of handleSubmitProof in source order: the
\* backend-app initialisation, then the six stages.
Pipeline ==
    <<"NewBrevisApp", "BuildCircuitInput", "NewFullWitness", "Prove",
      "SubmitProof", "PrepareRequest", "WaitFinalProofSubmitted">>

IsPrefix(a, b) == Len(a) <= Len(b) /\ \A i \in 1..Len(a) : a[i] = b[i]

IsJson(r) == r.ctype = "application/json"
IsText(r) == r.ctype = "text/plain; charset=utf-8"

\* C6: a collaborator call that returned an error is the last call its
\* submission ever makes, no call is made twice, and the submission has ended
\* with the error text of that call.
C6_FailFast ==
    \A s \in Subs :
        /\ IsPrefix(Ops(scalls[s]), Pipeline)
        /\ \A i \in 1..Len(scalls[s]) :
              scalls[s][i].err # Nil =>
                 /\ i = Len(scalls[s])
                 /\ spc[s] = "done"
                 /\ IsText(resp[s])
                 /\ resp[s].body = <<ErrText(scalls[s][i].op), scalls[s][i].err>>

\* C6 witness: build-circuit-input returned an error and the submission ended
\* there, with no later stage invoked.
C6_Witness ==
    \E s \in Subs :
        /\ spc[s] = "done"
        /\ Ops(scalls[s]) = <<"NewBrevisApp", "BuildCircuitInput">>
        /\ scalls[s][2].err = Err
        /\ resp[s].body[1] = "Error building circuit input"

\* C7: a success response is written only after every call of the pipeline
\* was made exactly once, in order, each after the previous one returned nil;
\* it carries the request identifier and fee PrepareRequest returned and the
\* transaction WaitFinalProofSubmitted returned.
C7_SuccessAfterAllStages ==
    \A s \in Subs :
        /\ IsPrefix(Ops(scalls[s]), Pipeline)
        /\ \A i \in 1..(Len(scalls[s]) - 1) : scalls[s][i].err = Nil
        /\ IsJson(resp[s]) =>
              /\ Ops(scalls[s]) = Pipeline
              /\ \A i \in 1..Len(scalls[s]) : scalls[s][i].err = Nil
              /\ resp[s].body =
                    [request_id |-> Hex(scalls[s][6].val.requestId),
                     fee |-> scalls[s][6].val.feeValue,
                     transaction |-> Hex(scalls[s][7].val)]

\* C7 witness: a submission answered with the success payload, its request
\* identifier and transaction reference being different values.
C7_Witness ==
    \E s \in Subs :
        /\ spc[s] = "done"
        /\ IsJson(resp[s])
        /\ resp[s].body.request_id = <<"0x", "a", "1">>
        /\ resp[s].body.fee = 7
        /\ resp[s].body.transaction = <<"0x", "2", "b">>

\* C8: the handler of /prepare-download can always write its acknowledgment
\* once the goroutine is started, whoever owns the mutex and wherever the
\* goroutine is; the acknowledgment is the fixed success response whatever
\* the goroutine logs.
C8_AckNeverBlocks ==
    \A t \in Preps :
        /\ hpc[t] = "spawned" => ENABLED Ack(t)
        /\ hpc[t] = "done" => (ack[t].status = StatusOK /\ ack[t] = AckResponse)
        /\ hpc[t] # "done" => ack[t] = NoResp

\* C8 witness: the acknowledgment was delivered while the goroutine of the
\* same call is still waiting for the mutex, held by a running compilation.
C8_Witness ==
    \E t, u \in Preps :
        /\ hpc[t] = "done"
        /\ ack[t].status = StatusOK
        /\ gpc[t] = "start"
        /\ gpc[u] = "compiling"

\* The goroutine that acquired the mutex right after goroutine t, if any.
NextLocker(t) ==
    {lockOrder[i + 1] : i \in {j \in 1..(Len(lockOrder) - 1) : lockOrder[j] = t}}

\* C9 (as stated): after an attempt whose compile call failed, the next
\* goroutine to acquire the mutex invokes compile again.
C9_Original ==
    \A t \in Preps : \A u \in NextLocker(t) :
        (glog[t] = LogCompileError /\ gpc[u] = "done") =>
            CountCalls(gcalls[u], "Compile") = 1

\* C9 (amended): a failed compile leaves circuitPrepared false and releases
\* the mutex; the next goroutine to acquire the mutex does not short-circuit
\* and, unless its NewBrevisApp call fails, invokes compile again; and
\* circuitPrepared becomes true only in a goroutine whose compile returned nil.
C9_FailedCompileRetryable ==
    /\ [](\A t \in Preps : \A u \in NextLocker(t) :
            (glog[t] = LogCompileError /\ gpc[u] = "done") =>
                /\ glog[u] # LogAlready
                /\ CountCalls(gcalls[u], "NewBrevisApp") = 1
                /\ CountOk(gcalls[u], "NewBrevisApp") = 1 =>
                      CountCalls(gcalls[u], "Compile") = 1)
    /\ [][\A t \in Preps :
            (gpc[t] = "compiling" /\ gpc'[t] # "compiling"
                /\ gcalls'[t][Len(gcalls'[t])].err = Err) =>
                /\ ~circuitPrepared'
                /\ gpc'[t] = "done"
                /\ circuitMutex' = Free]_vars
    /\ [][(~circuitPrepared /\ circuitPrepared') =>
            \E t \in Preps :
                /\ gpc[t] # "done" /\ gpc'[t] = "done"
                /\ CountOk(gcalls[t], "Compile") = 1]_vars

\* C9 witness: a compile attempt failed and the next goroutine to take the
\* mutex compiled again and prepared the circuit.
C9_Witness ==
    \E t \in Preps : \E u \in NextLocker(t) :
        /\ glog[t] = LogCompileError
        /\ glog[u] = LogComplete
        /\ circuitPrepared

\* C10 (as stated): every failed submission answers with a textual error and a
\* server error status; a success status comes only with the JSON payload.
C10_Original ==
    \A s \in Subs :
        spc[s] = "done" =>
            \/ IsJson(resp[s]) /\ resp[s].status = StatusOK
            \/ IsText(resp[s]) /\ resp[s].status >= 500

\* C10 (amended): a failed submission answers with a textual error whose
\* status is 400 (a client error status) when the circuit is not ready and 500
\* when NewBrevisApp or one of the six stages failed; a success status comes
\* only with the JSON payload of a submission all of whose calls returned nil.
C10_ErrorStatuses ==
    \A s \in Subs :
        spc[s] = "done" =>
            \/ /\ IsJson(resp[s]) /\ resp[s].status = StatusOK
               /\ Len(scalls[s]) = Len(Pipeline)
               /\ \A i \in 1..Len(scalls[s]) : scalls[s][i].err = Nil
            \/ /\ IsText(resp[s]) /\ resp[s].status = StatusBadRequest
               /\ ~prepared[s] /\ scalls[s] = <<>>
            \/ /\ IsText(resp[s]) /\ resp[s].status = StatusInternalServerError
               /\ prepared[s] /\ scalls[s] # <<>>
               /\ scalls[s][Len(scalls[s])].err = Err

\* C10 witness: a submission failed in a stage and answered 500.
C10_Witness ==
    \E s \in Subs :
        /\ spc[s] = "done"
        /\ IsText(resp[s])
        /\ resp[s].status = StatusInternalServerError
        /\ Ops(scalls[s]) = <<"NewBrevisApp", "BuildCircuitInput", "NewFullWitness", "Prove">>

\* ------------------------------------------------------- circuit runs
\* The server before any request, and a data input to run the circuit on.
InitDefine ==
    /\ cin \in CircuitInputs
    /\ cres = NoResult
    /\ circuitPrepared = FALSE
    /\ circuitMutex = Free
    /\ hpc = [t \in Preps |-> "idle"]
    /\ ack = [t \in Preps |-> NoResp]
    /\ gpc = [t \in Preps |-> "none"]
    /\ gcalls = [t \in Preps |-> <<>>]
    /\ glog = [t \in Preps |-> NoLog]
    /\ lockOrder = <<>>
    /\ spc = [s \in AllSubs |-> "idle"]
    /\ prepared = [s \in AllSubs |-> FALSE]
    /\ scalls = [s \in AllSubs |-> <<>>]
    /\ resp = [s \in AllSubs |-> NoResp]

\* The proving backend runs AppCircuit.Define against the input.
RunDefine ==
    /\ cres = NoResult
    /\ cres' = Define(cin)
    /\ UNCHANGED cin
    /\ UNCHANGED <<circuitPrepared, circuitMutex>>
    /\ UNCHANGED prepVars
    /\ UNCHANGED subVars

NextDefine == RunDefine

SpecDefine == InitDefine /\ [][NextDefine]_vars

SlotCount(in) == Len(in.StorageSlots)
AllExpected(in) == \A i \in 1..SlotCount(in) : in.StorageSlots[i].Value = EmissionsData

\* C11: for every stream of at most maxStorage slots that all hold the
\* expected emission, the constraints of Define are satisfied and its single
\* public output is the expected emission times the number of slots.
C11_OutputIsConstantTimesLength ==
    (cres # NoResult /\ SlotCount(cin) <= maxStorage /\ AllExpected(cin)) =>
        /\ cres.satisfied
        /\ cres.outputs = <<EmissionsData * SlotCount(cin)>>

\* C11 witness: three slots of 10000 each give the output 30000.
C11_Witness ==
    /\ cres # NoResult
    /\ cin = DataInput(<<10000, 10000, 10000>>)
    /\ cres.satisfied
    /\ cres.outputs = <<30000>>

\* A submission that has been given its circuit input.
HasInput(s) == CountOk(scalls[s], "BuildCircuitInput") = 1

\* An input with a slot whose value differs from the expected emission.
HasOtherValue(in) == \E i \in 1..SlotCount(in) : in.StorageSlots[i].Value # EmissionsData

\* C12: when the stream holds a slot that differs from the expected emission,
\* the constraints of Define are not satisfied; a submission given such an
\* input gets no proof, calls neither SubmitProof nor PrepareRequest (so no
\* request identifier is produced), never answers with the success payload,
\* and a Prove call it made has ended it with the proof error.
C12_MismatchFailsProving ==
    \A s \in Subs :
        (HasInput(s) /\ HasOtherValue(CircuitInput(scalls[s]))) =>
            /\ ~Define(CircuitInput(scalls[s])).satisfied
            /\ CountOk(scalls[s], "Prove") = 0
            /\ CountCalls(scalls[s], "SubmitProof") = 0
            /\ CountCalls(scalls[s], "PrepareRequest") = 0
            /\ ~IsJson(resp[s])
            /\ CountCalls(scalls[s], "Prove") = 1 =>
                  /\ spc[s] = "done"
                  /\ resp[s] = HttpError(<<"Error generating proof", Err>>,
                                         StatusInternalServerError)

\* C12 witness: three slots, one of them 9999, and the submission ended with
\* the proof error.
C12_Witness ==
    \E s \in Subs :
        /\ CircuitInput(scalls[s]) = DataInput(<<10000, 9999, 10000>>)
        /\ spc[s] = "done"
        /\ resp[s].body = <<"Error generating proof", Err>>

\* C13 (as stated): witness generation is never invoked on a stream of more
\* than maxStorage slots.
C13_Original ==
    \A s \in Subs :
        CountCalls(scalls[s], "NewFullWitness") >= 1 =>
            SlotCount(CircuitInput(scalls[s])) <= maxStorage

\* ------------------------------------------------- racing submissions
\* One /prepare-download call and NSubK /submit-proof calls.
NextSubs ==
    \/ \E t \in {1} : handlePrepareDownload(t)
    \/ \E s \in KSubs : handleSubmitProof(s)

SpecSubs == Init /\ [][NextSubs]_vars

\* Positions of handleSubmitProof at a collaborator call of the pipeline.
InStage(s) == \E i \in 1..Len(Pipeline) : spc[s] = Pipeline[i]

\* Calls of `op` made by all racing submissions together.
TotalCalls(op) == SumOver([s \in KSubs |-> CountCalls(scalls[s], op)], KSubs)

\* C14: a submission owns the mutex only around its readiness read and never
\* while it is at a pipeline stage or later; and when all racing submissions
\* have answered with the success payload, every call of the pipeline was
\* made once per submission.
C14_SubmissionsIndependent ==
    /\ \A s \in KSubs :
          /\ (circuitMutex = Req(s)) <=> SubHolds(s)
          /\ (InStage(s) \/ spc[s] \in {"ready", "done"}) => circuitMutex # Req(s)
    /\ (\A s \in KSubs : IsJson(resp[s])) =>
          \A i \in 1..Len(Pipeline) : TotalCalls(Pipeline[i]) = NSubK

\* C14 witness: two submissions that saw Prepared are inside pipeline stages
\* at the same time.
C14_Witness ==
    \E s, u \in KSubs :
        /\ s # u
        /\ prepared[s] /\ prepared[u]
        /\ spc[s] = "Prove"
        /\ spc[u] = "WaitFinalProofSubmitted"

\* ------------------------------------------------------------- progress
\* A step of the goroutine of call t, and a step of request s after it arrived.
GoStep(t) ==
    \/ GoLock(t)
    \/ GoCheck(t)
    \/ GoNewApp(t)
    \/ GoCompileCall(t)
    \/ GoCompileReturn(t)
    \/ GoSetPrepared(t)

SubStep(s) ==
    \/ SubLock(s)
    \/ SubRead(s)
    \/ SubUnlock(s)
    \/ SubCheck(s)
    \/ SubNewApp(s)
    \/ SubBuildInput(s)
    \/ SubWitness(s)
    \/ SubProve(s)
    \/ SubSubmit(s)
    \/ SubPrepareRequest(s)
    \/ SubWaitFinal(s)

\* The /prepare-download calls and one /submit-proof call.
OneSub == {1}

NextLive ==
    \/ \E t \in Preps : handlePrepareDownload(t)
    \/ \E s \in OneSub : handleSubmitProof(s)

\* The Go scheduler runs every runnable goroutine, a goroutine blocked in
\* Lock gets the mutex once it stays free, and every external call returns.
Fairness ==
    /\ \A t \in Preps : WF_vars(GoStep(t))
    /\ \A s \in OneSub : WF_vars(SubStep(s))

SpecLive == Init /\ [][NextLive]_vars /\ Fairness

ExitLines == {LogAlready, LogInitError, LogCompileError, LogComplete}

\* Successful returns of sdk.Compile so far.
CompileOks == SumOver([t \in Preps |-> CountOk(gcalls[t], "Compile")], Preps)

\* C15: a thread about to read circuitPrepared (line 56, line 90) or to write
\* it (line 80) owns circuitMutex, and the flag changes only in a step of the
\* goroutine that owns the mutex.
C15_LockDiscipline ==
    /\ [](\A t \in Preps : gpc[t] \in {"check", "set"} => circuitMutex = Task(t))
    /\ [](\A s \in Subs : spc[s] = "read" => circuitMutex = Req(s))
    /\ [][circuitPrepared' # circuitPrepared =>
            \E t \in Preps : circuitMutex = Task(t) /\ gpc[t] = "set"]_vars
    /\ [][\A s \in Subs : prepared'[s] # prepared[s] =>
            (circuitMutex = Req(s) /\ spc[s] = "read")]_vars

\* C15 witness: a submission is at its read of the flag, owning the mutex,
\* while a goroutine waits to take the mutex for its own check.
C15_Witness ==
    \E s \in Subs : \E t \in Preps :
        /\ spc[s] = "read"
        /\ circuitMutex = Req(s)
        /\ gpc[t] = "start"

\* A goroutine that was started and has not returned; a submission that
\* arrived and has not finished its readiness read.
Running(t) == gpc[t] \notin {"none", "done"}
AtReadiness(s) == spc[s] \in {"lock", "read", "unlock"}

\* C16: under fair scheduling no started goroutine stays short of its return
\* for ever (a goroutine that has returned stays returned), it returns on one
\* of its four exit paths with the mutex released, and no submission stays at
\* its readiness read for ever.
C16_PreparationTerminates ==
    /\ \A t \in Preps : []<>(~Running(t))
    /\ [](\A t \in Preps : gpc[t] = "done" =>
            (glog[t] \in ExitLines /\ circuitMutex # Task(t)))
    /\ [][\A t \in Preps : gpc[t] = "done" => gpc'[t] = "done"]_vars
    /\ \A s \in OneSub : []<>(~AtReadiness(s))

\* C16 witness: two goroutines have returned, one after a compile error and
\* one after an initialisation error, and the mutex is free.
C16_Witness ==
    \E t, u \in Preps :
        /\ gpc[t] = "done" /\ glog[t] = LogCompileError
        /\ gpc[u] = "done" /\ glog[u] = LogInitError
        /\ circuitMutex = Free

\* C17 (as stated): in every reachable state circuitPrepared is true exactly
\* when some compile invocation has returned nil, and at most one ever does.
C17_Original ==
    /\ circuitPrepared <=> (CompileOks >= 1)
    /\ CompileOks <= 1

\* C17 (amended): in every reachable state in which no goroutine is between
\* the successful return of sdk.Compile and the assignment of line 80 (so in
\* every state in which the mutex is free or owned by a submission),
\* circuitPrepared is true exactly when some compile invocation has returned
\* nil; and at most one compile invocation ever returns nil.
C17_FlagTracksCompileSuccess ==
    /\ (\A t \in Preps : gpc[t] # "set") => (circuitPrepared <=> (CompileOks >= 1))
    /\ circuitPrepared => CompileOks >= 1
    /\ CompileOks <= 1

\* C17 witness: the circuit is prepared after an attempt that failed and one
\* that succeeded.
C17_Witness ==
    /\ circuitPrepared
    /\ CompileOks = 1
    /\ CompileFailures = 1
    /\ circuitMutex = Free

\* C18: no submission is at its readiness read while a goroutine is between
\* Lock and Unlock (so none while a compile is in flight); a submission that
\* waits for the mutex stays waiting while a compile is in flight; and what it
\* reads is the outcome of the attempts so far: true exactly when a compile
\* invocation has returned nil.
C18_ReadWaitsForCompile ==
    /\ [](\A s \in Subs : SubHolds(s) => \A t \in Preps : ~GoHolds(t))
    /\ [](\A s \in Subs : spc[s] = "unlock" =>
            (prepared[s] = circuitPrepared /\ (prepared[s] <=> (CompileOks >= 1))))
    /\ [][\A s \in Subs : (spc[s] = "lock" /\ InCompile # {}) => spc'[s] = "lock"]_vars

\* C18 witness: a submission is waiting for the mutex while the goroutine
\* that owns it has its compile back and has not yet written the flag.
C18_Witness ==
    \E s \in Subs : \E t \in Preps :
        /\ spc[s] = "lock"
        /\ gpc[t] = "set"
        /\ ~circuitPrepared

\* C19: a submission has written a response exactly when it has returned;
\* after the response nothing of the submission changes (no second response,
\* no further call); the response is an error text or the success payload;
\* and under fair scheduling no submission that arrived stays without its
\* response for ever.
C19_OneResponse ==
    /\ [](\A s \in OneSub : (spc[s] = "done") <=> (resp[s] # NoResp))
    /\ [](\A s \in OneSub : resp[s] # NoResp =>
            \/ IsText(resp[s]) /\ resp[s].status # StatusOK
            \/ IsJson(resp[s]) /\ resp[s].status = StatusOK)
    /\ [][\A s \in OneSub : resp[s] # NoResp =>
            (resp'[s] = resp[s] /\ scalls'[s] = scalls[s] /\ spc'[s] = spc[s])]_vars
    /\ \A s \in OneSub : []<>(spc[s] \in {"idle", "done"})

\* C19 witness: a submission returned with an error response after its
\* witness stage failed.
C19_Witness ==
    \E s \in OneSub :
        /\ spc[s] = "done"
        /\ resp[s].body = <<"Error generating witness", Err>>
        /\ Len(scalls[s]) = 3

====
